---- MODULE Spec2Model ----
(***************************************************************************)
(* The Scrcpy route component of the demo application                      *)
(* (src/apps/demo/src/routes/scrcpy/index.tsx) as a state machine.         *)
(*                                                                         *)
(* The component's React state (running, connecting, width, height,        *)
(* encoders, currentEncoder, selectedDecoder, canvasKey) and refs          *)
(* (scrcpyClientRef, decoderRef) are variables. Every invocation of        *)
(* start() is an asynchronous task with a program counter that names the   *)
(* await it is suspended at; every invocation of stop() that got past its  *)
(* guard is a task suspended at `await scrcpyClientRef.current.close()`.   *)
(* JavaScript runs each piece of code between two awaits without           *)
(* interruption, so one action is one such piece. State setters called     *)
(* outside React event handlers are applied synchronously, and the         *)
(* functional updaters of lines 155, 194, 204 and 209 read the state       *)
(* current at the time of the call.                                        *)
(*                                                                         *)
(* The protocol client, the decoders, fetchServer and the sync channel are *)
(* external: their promises resolve or reject, and their callbacks fire,   *)
(* nondeterministically. The model records what the component calls on     *)
(* them (closeCalls, disposeCalls, lastCall). A client may report that it  *)
(* closed at any time after its close callback is registered; it delivers  *)
(* size-changed and video-data callbacks only once its start() has         *)
(* resolved, and goes on delivering them while a close() is pending.       *)
(* close() itself always resolves.                                         *)
(*                                                                         *)
(* The Start command exists only while !running (lines 281-296). The       *)
(* "Connecting..." dialog (lines 542-570) is presentation: start() itself  *)
(* tests nothing but `device`, so the model lets Start be invoked while    *)
(* another start() is still connecting.                                    *)
(*                                                                         *)
(* ScrcpyClient is defined in ./server: the order in which it delivers its *)
(* events is taken from its documented contract (ClientMayDeliver).  The   *)
(* decoders are defined in ./tinyh264 and ./web-codecs: that dispose()     *)
(* returns is taken from theirs (DisposeReturns).                          *)
(*                                                                         *)
(* The pointer is followed with the buttons it holds and its capture by    *)
(* the canvas; the browser raises the pointer events. Numbers that need    *)
(* not be integers (coordinates, pressure) are exact fractions.            *)
(*                                                                         *)
(* Four specifications share Init and the actions. Spec follows the        *)
(* session with its stream and two input events; SpecSession the session   *)
(* alone with the decoder dropdown; SpecSettings the session with both     *)
(* dropdowns, recording what was selected when start() was invoked;        *)
(* SpecInput one session with every pointer, key and button event.         *)
(***************************************************************************)
EXTENDS Integers, Sequences, FiniteSets, TLC

\* ---------------------------------------------------------------- bounds
\* Number of start() invocations followed; task t constructs client t and
\* decoder t.
MaxStarts == 2
\* Number of stop() invocations that may be suspended on one client's close().
MaxStops == 2

Tasks == 1..MaxStarts
\* One pointer is followed: the mouse, whose pointerId is 1.
PointerIds == {1}
None == 0

\* What ScrcpyClient.getEncoders may return.
EncoderNames == {"e1", "e2"}
ProbeResults == {<<>>, <<"e1">>, <<"e2", "e1">>}
\* What a size-changed callback may carry: <<croppedWidth, croppedHeight>>.
Geometries == {<<1, 2>>, <<2, 1>>}
\* The decoders offered, lines 15-26, by name; WebCodecs only where the
\* browser has window.VideoDecoder.
decoders == <<"TinyH264 (Software)", "WebCodecs">>
\* Keys of key-down events (e.key), each a sequence of characters.
Backspace == <<"B", "a", "c", "k", "s", "p", "a", "c", "e">>
Keys ==
    {<<"a">>, <<"Z">>, <<"5">>, <<"-">>, <<"F", "5">>, Backspace,
     <<"E", "n", "t", "e", "r">>}

VARIABLES
    device,            \* useAdbDevice() returned a device
    running,           \* useState(false), line 43
    connecting,        \* useState(false), line 61
    width, height,     \* useState(0), lines 47-48
    encoders,          \* useState([]), line 88
    currentEncoder,    \* useState(), line 89; "none" is undefined
    scrcpyClientRef,   \* line 120; None is undefined
    decoderRef,        \* line 74; None is undefined
    pc,                \* per start() task: the await it is suspended at
    probed,            \* per start() task: its local `encoders` (line 160)
    result,            \* per start() task: how it ended
    stopDuring,        \* per start() task: stop() was invoked while it was in flight
    encoderAtStart,    \* per start() task: currentEncoder when it was invoked
    decoderAtStart,    \* per start() task: the selectedDecoder its closure holds
    phase,             \* per client: none, starting, started, failed, closed
    optEncoder,        \* per client: options.encoder it was constructed with
    closeCalls,        \* per client: number of close() calls made on it
    closeReported,     \* per client: its close callback has fired
    decoder,           \* per decoder: none, live, disposed
    disposeCalls,      \* per decoder: number of dispose() calls made on it
    configurePending,  \* per decoder: a configure() call on it has not resolved
    stopsPending,      \* per client: stop() tasks suspended on its close()
    selectedDecoder,   \* useState(decoders[0]), line 73: its name
    canvasKey,         \* useState(decoders[0].name), line 45
    held,              \* per pointer: the buttons held, as the mask e.buttons
    captured,          \* per pointer: the canvas has captured it
    contactOpen,       \* per pointer: a Down was sent and no Up since
    lastCall           \* the call the last step made on a collaborator

reactState == <<device, running, connecting, width, height, encoders, currentEncoder>>
refs == <<scrcpyClientRef, decoderRef>>
taskVars ==
    <<pc, probed, result, stopDuring, encoderAtStart, decoderAtStart>>
clientVars == <<phase, optEncoder, closeCalls, closeReported>>
decoderVars == <<decoder, disposeCalls, configurePending>>
surfaceVars == <<selectedDecoder, canvasKey>>
pointerVars == <<held, captured, contactOpen>>
vars == <<reactState, refs, taskVars, clientVars, decoderVars, stopsPending,
          surfaceVars, pointerVars, lastCall>>

\* lastCall is the call the step just taken made on client `client` (or, for
\* configure and decode, on the decoder constructed with it).  A step that
\* makes such a call changes neither running nor any client or decoder, and
\* every other step resets lastCall, so in a state with a call in lastCall the
\* other variables are as they were when the call was made.  arg is the
\* call's argument as a sequence: the characters of a text, the name of a key
\* code, or nothing.
\* A touch call also carries its command (touch) and, of the event it was
\* made for, the position, the pressure and the canvas rectangle (at).
NoTouch ==
    [action |-> "none", pointerId |-> 0, pointerX |-> <<0, 1>>,
     pointerY |-> <<0, 1>>, pressure |-> <<0, 1>>]
NoPlace ==
    [clientX |-> 0, clientY |-> 0, pressure |-> <<0, 1>>,
     view |-> [x |-> 0, y |-> 0, width |-> 1, height |-> 1]]
NoCall ==
    [op |-> "none", client |-> None, arg |-> <<>>, touch |-> NoTouch,
     at |-> NoPlace]
Call(op, c, arg) == [NoCall EXCEPT !.op = op, !.client = c, !.arg = arg]

InFlightPcs == {"fetch", "sync", "push1", "probe", "push2", "clientStart"}
InFlight(t) == pc[t] \in InFlightPcs

Range(s) == {s[i] : i \in 1..Len(s)}

\* The value of a start() task's `encoders` before getEncoders has resolved.
NotProbed == <<"not probed">>

Init ==
    /\ device = FALSE
    /\ running = FALSE
    /\ connecting = FALSE
    /\ width = 0
    /\ height = 0
    /\ encoders = <<>>
    /\ currentEncoder = "none"
    /\ scrcpyClientRef = None
    /\ decoderRef = None
    /\ pc = [t \in Tasks |-> "idle"]
    /\ probed = [t \in Tasks |-> NotProbed]
    /\ result = [t \in Tasks |-> "none"]
    /\ stopDuring = [t \in Tasks |-> FALSE]
    /\ encoderAtStart = [t \in Tasks |-> "none"]
    /\ decoderAtStart = [t \in Tasks |-> "none"]
    /\ phase = [c \in Tasks |-> "none"]
    /\ optEncoder = [c \in Tasks |-> "none"]
    /\ closeCalls = [c \in Tasks |-> 0]
    /\ closeReported = [c \in Tasks |-> FALSE]
    /\ decoder = [d \in Tasks |-> "none"]
    /\ disposeCalls = [d \in Tasks |-> 0]
    /\ configurePending = [d \in Tasks |-> FALSE]
    /\ stopsPending = [c \in Tasks |-> 0]
    /\ selectedDecoder = decoders[1]
    /\ canvasKey = decoders[1]
    /\ held = [p \in PointerIds |-> 0]
    /\ captured = [p \in PointerIds |-> FALSE]
    /\ contactOpen = [p \in PointerIds |-> FALSE]
    /\ lastCall = NoCall

\* ------------------------------------------------------------- the device
\* useAdbDevice(), line 42: a device is connected.  The device only enables
\* Start, so its later disconnection is not followed.
DeviceConnected ==
    /\ ~device
    /\ device' = TRUE
    /\ lastCall' = NoCall
    /\ UNCHANGED <<running, connecting, width, height, encoders,
                   currentEncoder, refs, taskVars, clientVars, decoderVars,
                   stopsPending, surfaceVars, pointerVars>>

\* ------------------------------------------------------------ the surface
\* A layout effect that sets the canvas key whether or not a session runs.
EffectAlways(isRunning, selected, key) == selected

\* useLayoutEffect, lines 79-86, run with the given `running` and
\* `selectedDecoder.name`: the new canvasKey.  React runs it in the commit in
\* which `running` or `selectedDecoder` changed, and the setCanvasKey it
\* calls is rendered before anything else happens.
LayoutEffect(isRunning, selected, key) ==
    IF ~isRunning THEN selected ELSE key

\* handleSelectedDecoderChange, lines 75-78, and the layout effect.
handleSelectedDecoderChange(d) ==
    /\ d # selectedDecoder
    /\ selectedDecoder' = d
    /\ canvasKey' = LayoutEffect(running, d, canvasKey)
    /\ lastCall' = NoCall
    /\ UNCHANGED <<reactState, refs, taskVars, clientVars, decoderVars,
                   stopsPending, pointerVars>>

\* ---------------------------------------------------------------- start()
\* The Start command is in the command bar only while !running, and is
\* disabled without a device; start() returns at once without a device.
StartAvailable == device /\ ~running

\* start(), lines 124-140: up to the first await.
Start(t) ==
    /\ StartAvailable
    /\ pc[t] = "idle"
    /\ \A u \in Tasks : u < t => pc[u] # "idle"
    /\ connecting' = TRUE
    /\ pc' = [pc EXCEPT ![t] = "fetch"]
    /\ lastCall' = NoCall
    /\ UNCHANGED <<device, running, width, height, encoders, currentEncoder,
                   refs, probed, result, stopDuring, clientVars, decoderVars,
                   stopsPending, surfaceVars, pointerVars>>

\* A start() that probes the encoders without having pushed the binary: the
\* order of lines 140-160 with the first sync.write left out.
ProbeWithoutPush(p) ==
    CASE p = "fetch" -> "sync"
      [] p = "sync" -> "probe"
      [] p = "push1" -> "probe"

\* An await of start() resolves and the next one is reached without anything
\* else happening in between: fetchServer (140), device.sync() (145), the
\* first sync.write (146).
NextAwait(p) ==
    CASE p = "fetch" -> "sync"
      [] p = "sync" -> "push1"
      [] p = "push1" -> "probe"

StartStep(t) ==
    /\ pc[t] \in {"fetch", "sync", "push1"}
    /\ pc' = [pc EXCEPT ![t] = NextAwait(pc[t])]
    /\ lastCall' = NoCall
    /\ UNCHANGED <<reactState, refs, probed, result, stopDuring,
                   encoderAtStart, decoderAtStart, clientVars, decoderVars,
                   stopsPending, surfaceVars, pointerVars>>

\* catch and finally of start(), lines 254-258: the error is shown and
\* connecting is reset; nothing else is undone.
StartFailed(t, message) ==
    /\ pc' = [pc EXCEPT ![t] = "done"]
    /\ result' = [result EXCEPT ![t] = message]
    /\ connecting' = FALSE

\* The await start() is suspended at rejects.
StartReject(t) ==
    /\ InFlight(t)
    /\ StartFailed(t, "rejected")
    /\ phase' = [phase EXCEPT ![t] = IF pc[t] = "clientStart" THEN "failed" ELSE @]
    /\ lastCall' = NoCall
    /\ UNCHANGED <<device, running, width, height, encoders, currentEncoder,
                   refs, probed, stopDuring, encoderAtStart, decoderAtStart,
                   optEncoder, closeCalls, closeReported, decoderVars,
                   stopsPending, surfaceVars, pointerVars>>

\* getEncoders resolves, lines 160-178: an empty list is thrown as an error,
\* any other list is stored and the second push begins.
ProbeEmpty(list) == Len(list) = 0

ProbeDone(t, list) ==
    /\ pc[t] = "probe"
    /\ probed' = [probed EXCEPT ![t] = list]
    /\ IF ProbeEmpty(list)
       THEN /\ StartFailed(t, "No available encoder found")
            /\ UNCHANGED encoders
       ELSE /\ encoders' = list
            /\ pc' = [pc EXCEPT ![t] = "push2"]
            /\ UNCHANGED <<result, connecting>>
    /\ lastCall' = NoCall
    /\ UNCHANGED <<device, running, width, height, currentEncoder, refs,
                   stopDuring, encoderAtStart, decoderAtStart, clientVars,
                   decoderVars, stopsPending, surfaceVars, pointerVars>>

\* The updater of setCurrentEncoder, lines 194-202: options.encoder and the
\* new currentEncoder, from the current selection and this start()'s list.
EffectiveEncoder(current, list) ==
    IF current # "none" THEN current ELSE list[1]

\* The second sync.write resolves, lines 180-251: the options are completed,
\* the client is constructed and its callbacks registered, the decoder is
\* constructed and stored in decoderRef, and client.start() is called.
Push2Done(t) ==
    /\ pc[t] = "push2"
    /\ currentEncoder' = EffectiveEncoder(currentEncoder, probed[t])
    /\ optEncoder' = [optEncoder EXCEPT ![t] = EffectiveEncoder(currentEncoder, probed[t])]
    /\ phase' = [phase EXCEPT ![t] = "starting"]
    /\ decoder' = [decoder EXCEPT ![t] = "live"]
    /\ decoderRef' = t
    /\ pc' = [pc EXCEPT ![t] = "clientStart"]
    /\ lastCall' = NoCall
    /\ UNCHANGED <<device, running, connecting, width, height, encoders,
                   scrcpyClientRef, probed, result, stopDuring, encoderAtStart,
                   decoderAtStart, closeCalls, closeReported, disposeCalls,
                   configurePending, stopsPending, surfaceVars, pointerVars>>

\* client.start() resolves, lines 251-258: the handle is stored, running is
\* set, and finally resets connecting.
ClientStarted(t) ==
    /\ pc[t] = "clientStart"
    /\ scrcpyClientRef' = t
    /\ running' = TRUE
    /\ canvasKey' = IF ~running
                    THEN LayoutEffect(TRUE, selectedDecoder, canvasKey)
                    ELSE canvasKey
    /\ connecting' = FALSE
    /\ pc' = [pc EXCEPT ![t] = "done"]
    /\ result' = [result EXCEPT ![t] = "ok"]
    /\ phase' = [phase EXCEPT ![t] = "started"]
    /\ lastCall' = NoCall
    /\ UNCHANGED <<device, width, height, encoders, currentEncoder, decoderRef,
                   probed, stopDuring, encoderAtStart, decoderAtStart,
                   optEncoder, closeCalls, closeReported, decoderVars,
                   stopsPending, selectedDecoder, pointerVars>>

\* ----------------------------------------------------------------- stop()
\* The guard of stop(), lines 264-266.
StopProceeds == scrcpyClientRef # None

\* stop(), lines 262-268: up to the await of close().  Sets closeCalls,
\* stopsPending and stopDuring.
StopInvoke ==
    /\ stopDuring' = [t \in Tasks |-> stopDuring[t] \/ InFlight(t)]
    /\ IF StopProceeds
       THEN /\ stopsPending[scrcpyClientRef] < MaxStops
            /\ closeCalls' = [closeCalls EXCEPT ![scrcpyClientRef] = @ + 1]
            /\ stopsPending' = [stopsPending EXCEPT ![scrcpyClientRef] = @ + 1]
       ELSE UNCHANGED <<closeCalls, stopsPending>>

\* The Stop command, in the command bar only while running (lines 281-287).
StopClick ==
    /\ running
    /\ StopInvoke
    /\ lastCall' = NoCall
    /\ UNCHANGED <<reactState, refs, pc, probed, result, encoderAtStart,
                   decoderAtStart, phase, optEncoder, closeReported,
                   decoderVars, surfaceVars, pointerVars>>

\* The client reports that it closed, client.onClose(stop), line 225.  A
\* client reports it once, at any time after the callback is registered:
\* on its own, or following a close().
ClientClosed(c) ==
    /\ phase[c] # "none"
    /\ ~closeReported[c]
    /\ closeReported' = [closeReported EXCEPT ![c] = TRUE]
    /\ StopInvoke
    /\ lastCall' = NoCall
    /\ UNCHANGED <<reactState, refs, pc, probed, result, encoderAtStart,
                   decoderAtStart, phase, optEncoder, decoderVars, surfaceVars,
                   pointerVars>>

\* A stop() that clears the handle only if it still is the client it closed.
HandleClearedIfOwn(c) == IF scrcpyClientRef = c THEN None ELSE scrcpyClientRef

\* The handle after line 269, `scrcpyClientRef.current = undefined`, of a
\* stop() that closed client c: cleared, whichever client it holds by then.
HandleAfterClose(c) == None

\* decoder.dispose(), called at line 271 between the clearing of the handle
\* and setRunning(false).  The decoders are defined in ./tinyh264 and
\* ./web-codecs; by their documented contract dispose() releases the
\* decoder's resources and is safe to call, so the call on decoder d returns
\* and line 273 is reached.
DisposeReturns(d) == TRUE

\* close() resolves and stop() resumes, lines 269-273: the handle is cleared,
\* the decoder in decoderRef is disposed and running is reset.
StopResume(c) ==
    /\ stopsPending[c] > 0
    /\ stopsPending' = [stopsPending EXCEPT ![c] = @ - 1]
    /\ phase' = [phase EXCEPT ![c] = "closed"]
    /\ scrcpyClientRef' = HandleAfterClose(c)
    /\ IF decoderRef # None
       THEN /\ decoder' = [decoder EXCEPT ![decoderRef] = "disposed"]
            /\ disposeCalls' = [disposeCalls EXCEPT ![decoderRef] = @ + 1]
       ELSE UNCHANGED <<decoder, disposeCalls>>
    /\ LET reached == decoderRef = None \/ DisposeReturns(decoderRef)
       IN  /\ running' = (running /\ ~reached)
           /\ canvasKey' = IF running /\ reached
                           THEN LayoutEffect(FALSE, selectedDecoder, canvasKey)
                           ELSE canvasKey
    /\ lastCall' = NoCall
    /\ UNCHANGED <<device, connecting, width, height, encoders,
                   currentEncoder, decoderRef, taskVars, optEncoder,
                   closeCalls, closeReported, configurePending, selectedDecoder,
                   pointerVars>>

\* --------------------------------------------------------------- settings
\* handleCurrentEncoderChange, lines 90-93: the dropdown offers `encoders`.
handleCurrentEncoderChange(e) ==
    /\ e \in Range(encoders)
    /\ currentEncoder' = e
    /\ lastCall' = NoCall
    /\ UNCHANGED <<device, running, connecting, width, height, encoders, refs,
                   taskVars, clientVars, decoderVars, stopsPending,
                   surfaceVars, pointerVars>>

\* ------------------------------------------------------- client callbacks
\* A client delivers stream callbacks once its start() has resolved, until
\* its close() has resolved or it has reported that it closed; a pending
\* close() does not silence it.
Delivering(c) == phase[c] = "started" /\ ~closeReported[c]

\* A size-changed handler that calls decoder.configure(config) without
\* awaiting it: its promise is resolved at once.
ConfigureNotAwaited(c) == FALSE

\* The promise returned by the size-changed handler, lines 230-241: the
\* handler is async and awaits decoder.configure(config), so its promise is
\* pending for as long as that configure() is.  The decoder is the one
\* constructed by the same start() as the client.
sizeChangedPending(c) == configurePending[c]

\* The client delivers its events one at a time, in arrival order, and waits
\* for the promise of one handler before it delivers the next event.  The
\* video-data handler awaits decoder.decode(data) (line 244); decode() is
\* taken to have resolved by the time the next event arrives.
ClientMayDeliver(c) == ~sizeChangedPending(c)

\* client.onSizeChanged, lines 230-241.
SizeChanged(c, g) ==
    /\ Delivering(c)
    /\ ClientMayDeliver(c)
    /\ width' = g[1]
    /\ height' = g[2]
    /\ configurePending' = [configurePending EXCEPT ![c] = TRUE]
    /\ lastCall' = Call("configure", c, <<>>)
    /\ UNCHANGED <<device, running, connecting, encoders, currentEncoder,
                   refs, taskVars, clientVars, decoder, disposeCalls,
                   stopsPending, surfaceVars, pointerVars>>

\* decoder.configure(config) resolves, line 240.
ConfigureDone(d) ==
    /\ configurePending[d]
    /\ configurePending' = [configurePending EXCEPT ![d] = FALSE]
    /\ lastCall' = NoCall
    /\ UNCHANGED <<reactState, refs, taskVars, clientVars, decoder,
                   disposeCalls, stopsPending, surfaceVars, pointerVars>>

\* client.onVideoData, lines 243-245.
VideoData(c) ==
    /\ Delivering(c)
    /\ ClientMayDeliver(c)
    /\ lastCall' = Call("decode", c, <<>>)
    /\ UNCHANGED <<reactState, refs, taskVars, clientVars, decoderVars,
                   stopsPending, surfaceVars, pointerVars>>

\* client.onError, lines 222-224: the message is shown in the error dialog.
ClientError(c) ==
    /\ Delivering(c)
    /\ lastCall' = Call("showErrorDialog", c, <<"message">>)
    /\ UNCHANGED <<reactState, refs, taskVars, clientVars, decoderVars,
                   stopsPending, surfaceVars, pointerVars>>

\* ------------------------------------------------------------------ input
\* A call through `scrcpyClientRef.current!`: a TypeError when it is undefined.
CallOnHandle(op, arg) ==
    IF scrcpyClientRef # None
    THEN Call(op, scrcpyClientRef, arg)
    ELSE [NoCall EXCEPT !.op = "TypeError"]

\* ---------------------------------------------------------- pointer input
\* JavaScript numbers that are not integers are followed as exact fractions
\* <<numerator, denominator>> with a positive denominator; the rounding of
\* the floating-point division is not followed.
Ratio(n, d) == <<n, d>>
LessThan(a, b) == a[1] * b[2] < b[1] * a[2]
Scaled(a, k) == <<a[1] * k, a[2]>>
\* The same number in lowest terms, so that equal numbers are equal values.
RECURSIVE GCD(_, _)
GCD(m, n) == IF n = 0 THEN m ELSE GCD(n, m % n)
Lowest(a) ==
    LET g == GCD(IF a[1] < 0 THEN -a[1] ELSE a[1], a[2])
    IN  <<a[1] \div g, a[2] \div g>>

\* A clamp that has no upper limit.
clampBelowOnly(value, min, max) ==
    IF LessThan(value, min) THEN min ELSE value

\* clamp, lines 27-37.
clamp(value, min, max) ==
    IF LessThan(value, min) THEN min
    ELSE IF LessThan(max, value) THEN max
    ELSE value

\* The factor of line 365.
PressureScale == 65535

\* The command of lines 360-367 for pointer event e on a canvas whose
\* bounding rectangle is view (lines 354-358); `buttons: 0` is left out.
TouchCommand(action, e, view) ==
    LET pointerViewX == e.clientX - view.x
        pointerViewY == e.clientY - view.y
        pointerScreenX ==
            Scaled(clamp(Ratio(pointerViewX, view.width), Ratio(0, 1), Ratio(1, 1)), width)
        pointerScreenY ==
            Scaled(clamp(Ratio(pointerViewY, view.height), Ratio(0, 1), Ratio(1, 1)), height)
    IN  [action |-> action,
         pointerId |-> e.pointerId,
         pointerX |-> Lowest(pointerScreenX),
         pointerY |-> Lowest(pointerScreenY),
         pressure |-> Lowest(Scaled(e.pressure, PressureScale))]

\* injectTouch, lines 350-368: `scrcpyClientRef.current?.injectTouch`.  The
\* call is recorded with the event it was made for; contactOpen
\* follows the commands sent for the pointer.
injectTouch(action, e, view) ==
    IF scrcpyClientRef # None
    THEN /\ lastCall' = [op |-> "injectTouch", client |-> scrcpyClientRef,
                         arg |-> <<>>,
                         touch |-> TouchCommand(action, e, view),
                         at |-> [clientX |-> e.clientX, clientY |-> e.clientY,
                                 pressure |-> e.pressure, view |-> view]]
         /\ contactOpen' = [contactOpen EXCEPT ![e.pointerId] =
                               CASE action = "Down" -> TRUE
                                 [] action = "Up" -> FALSE
                                 [] OTHER -> @]
    ELSE /\ lastCall' = NoCall
         /\ UNCHANGED contactOpen

\* What no pointer handler changes.  `held` is the pointer's own state: the
\* step that raises the event says how it changes.
PointerFrame ==
    UNCHANGED <<reactState, refs, taskVars, clientVars, decoderVars,
                stopsPending, surfaceVars>>

\* handlePointerDown, lines 370-377.
handlePointerDown(e, view) ==
    /\ IF e.button # 0
       THEN lastCall' = NoCall /\ UNCHANGED <<captured, contactOpen>>
       ELSE /\ captured' = [captured EXCEPT ![e.pointerId] = TRUE]
            /\ injectTouch("Down", e, view)
    /\ PointerFrame

\* handlePointerMove, lines 379-384.
handlePointerMove(e, view) ==
    /\ IF e.buttons # 1
       THEN lastCall' = NoCall /\ UNCHANGED contactOpen
       ELSE injectTouch("Move", e, view)
    /\ UNCHANGED captured
    /\ PointerFrame

\* handlePointerUp, lines 386-392, the handler of pointerup and of
\* pointercancel (line 477).  After either event the browser releases the
\* pointer capture, whether or not the handler did.
handlePointerUp(e, view) ==
    /\ IF e.button # 0
       THEN lastCall' = NoCall /\ UNCHANGED contactOpen
       ELSE injectTouch("Up", e, view)
    /\ captured' = [captured EXCEPT ![e.pointerId] = FALSE]
    /\ PointerFrame

\* ------------------------------------------------------------ the pointer
\* The pointer events the browser raises on the canvas (lines 474-477) for a
\* pointer whose buttons go down and up.  A pointerdown is raised when the
\* first button goes down and a pointerup when the last one goes up; a change
\* of another button in between is a pointermove.  The canvas receives an
\* event when the pointer is over it or captured by it.
Views ==
    {[x |-> 1, y |-> 1, width |-> 2, height |-> 4],
     [x |-> 0, y |-> 2, width |-> 3, height |-> 3]}
PointerPositions == {<<0, 0>>, <<1, 1>>, <<2, 3>>, <<3, 5>>, <<4, 6>>, <<2, 6>>}
Pressures == {<<0, 1>>, <<1, 2>>, <<1, 1>>}
\* e.button: 0 is the primary button, 2 the secondary one; in the mask
\* e.buttons they are 1 and 2.
Buttons == {0, 2}
MaskOf(b) == IF b = 0 THEN 1 ELSE 2
Holds(mask, b) == (mask \div MaskOf(b)) % 2 = 1

Inside(view, pos) ==
    /\ view.x <= pos[1] /\ pos[1] <= view.x + view.width
    /\ view.y <= pos[2] /\ pos[2] <= view.y + view.height
Reaches(p, view, pos) == captured[p] \/ Inside(view, pos)

PointerEvent(p, button, buttons, pos, pressure) ==
    [pointerId |-> p, button |-> button, buttons |-> buttons,
     clientX |-> pos[1], clientY |-> pos[2], pressure |-> pressure]

\* An event that does not reach the canvas runs no handler.
Unobserved ==
    /\ lastCall' = NoCall
    /\ UNCHANGED <<captured, contactOpen>>
    /\ PointerFrame

ButtonPressed(p, b, pos, view, pressure) ==
    /\ ~Holds(held[p], b)
    /\ held' = [held EXCEPT ![p] = @ + MaskOf(b)]
    /\ LET e == PointerEvent(p, b, held[p] + MaskOf(b), pos, pressure)
       IN  IF ~Reaches(p, view, pos) THEN Unobserved
           ELSE IF held[p] = 0 THEN handlePointerDown(e, view)
           ELSE handlePointerMove(e, view)

ButtonReleased(p, b, pos, view, pressure) ==
    /\ Holds(held[p], b)
    /\ held' = [held EXCEPT ![p] = @ - MaskOf(b)]
    /\ LET e == PointerEvent(p, b, held[p] - MaskOf(b), pos, pressure)
       IN  IF ~Reaches(p, view, pos) THEN Unobserved
           ELSE IF held[p] = MaskOf(b) THEN handlePointerUp(e, view)
           ELSE handlePointerMove(e, view)

\* A move changes no button: e.button is -1.
PointerMoved(p, pos, view, pressure) ==
    /\ UNCHANGED held
    /\ LET e == PointerEvent(p, -1, held[p], pos, pressure)
       IN  IF ~Reaches(p, view, pos) THEN Unobserved
           ELSE handlePointerMove(e, view)

\* pointercancel: the pointer is lost with whatever it held; the event has
\* button 0 and buttons 0.
PointerCancelled(p, pos, view) ==
    /\ held[p] # 0
    /\ held' = [held EXCEPT ![p] = 0]
    /\ LET e == PointerEvent(p, 0, 0, pos, Ratio(0, 1))
       IN  IF ~Reaches(p, view, pos) THEN Unobserved
           ELSE handlePointerUp(e, view)

\* --------------------------------------------------------- keyboard input
LowerCase ==
    <<"a", "b", "c", "d", "e", "f", "g", "h", "i", "j", "k", "l", "m",
      "n", "o", "p", "q", "r", "s", "t", "u", "v", "w", "x", "y", "z">>
UpperCase ==
    <<"A", "B", "C", "D", "E", "F", "G", "H", "I", "J", "K", "L", "M",
      "N", "O", "P", "Q", "R", "S", "T", "U", "V", "W", "X", "Y", "Z">>
Digits == {"0", "1", "2", "3", "4", "5", "6", "7", "8", "9"}

\* How a regular expression with the i flag compares characters: by their
\* upper-case form.
UpperOf ==
    [ch \in Range(LowerCase) |->
        UpperCase[CHOOSE i \in 1..Len(LowerCase) : LowerCase[i] = ch]]
Canonicalize(ch) == IF ch \in DOMAIN UpperOf THEN UpperOf[ch] ELSE ch

\* The class [a-z0-9] under the i flag: a character matches when its
\* upper-case form is that of a member of the class.
ClassCanonical == {Canonicalize(m) : m \in Range(LowerCase) \cup Digits}
ClassMatch(ch) == Canonicalize(ch) \in ClassCanonical

\* The pattern without its end anchor, /^[a-z0-9]/i.
keyMatchUnanchored(key) == Len(key) >= 1 /\ ClassMatch(key[1])

\* key.match(/^[a-z0-9]$/i), line 396: the whole key is one character of the
\* class.
keyMatch(key) == Len(key) = 1 /\ ClassMatch(key[1])

\* The table of lines 401-403 indexed by the key; <<>> is undefined.
keyCodeOf(key) == IF key = Backspace THEN <<"Delete">> ELSE <<>>

\* handleKeyDown, lines 394-411.
handleKeyDown(key) ==
    /\ lastCall' = IF keyMatch(key) THEN CallOnHandle("injectText", key)
                   ELSE IF keyCodeOf(key) # <<>>
                        THEN CallOnHandle("injectKeyCode", keyCodeOf(key))
                        ELSE NoCall
    /\ UNCHANGED <<reactState, refs, taskVars, clientVars, decoderVars,
                   stopsPending, surfaceVars, pointerVars>>

\* handleBackClick, lines 413-415.
handleBackClick ==
    /\ lastCall' = CallOnHandle("pressBackOrTurnOnScreen", <<>>)
    /\ UNCHANGED <<reactState, refs, taskVars, clientVars, decoderVars,
                   stopsPending, surfaceVars, pointerVars>>

\* handleHomeClick and handleAppSwitchClick, lines 417-431.
handleNavClick(keyCode) ==
    /\ lastCall' = CallOnHandle("injectKeyCode", <<keyCode>>)
    /\ UNCHANGED <<reactState, refs, taskVars, clientVars, decoderVars,
                   stopsPending, surfaceVars, pointerVars>>

\* ------------------------------------------------------------------- Next
Next ==
    \/ DeviceConnected
    \/ \E t \in Tasks :
        Start(t) /\ UNCHANGED <<encoderAtStart, decoderAtStart>>
    \/ \E t \in Tasks : StartStep(t)
    \/ \E t \in Tasks : StartReject(t)
    \/ \E t \in Tasks : \E list \in ProbeResults : ProbeDone(t, list)
    \/ \E t \in Tasks : Push2Done(t)
    \/ \E t \in Tasks : ClientStarted(t)
    \/ StopClick
    \/ \E c \in Tasks : ClientClosed(c)
    \/ \E c \in Tasks : StopResume(c)
    \/ \E e \in EncoderNames : handleCurrentEncoderChange(e)
    \/ \E c \in Tasks : \E g \in Geometries : SizeChanged(c, g)
    \/ \E d \in Tasks : ConfigureDone(d)
    \/ \E c \in Tasks : VideoData(c)
    \/ \E c \in Tasks : ClientError(c)
    \/ /\ handlePointerMove(PointerEvent(1, -1, 1, <<2, 3>>, Ratio(1, 2)),
                            [x |-> 1, y |-> 1, width |-> 2, height |-> 4])
       /\ UNCHANGED held
    \/ handleBackClick

\* The session with its stream; of the input events, a pointer move with the
\* primary button held and a click on Back.
Spec == Init /\ [][Next]_vars

\* The session alone: start() and stop() as in Spec, with a probe that finds
\* no encoder or one, and the decoder dropdown; the stream and the input
\* events are left out.
NextSession ==
    \/ DeviceConnected
    \/ \E t \in Tasks :
        Start(t) /\ UNCHANGED <<encoderAtStart, decoderAtStart>>
    \/ \E t \in Tasks : StartStep(t)
    \/ \E t \in Tasks : StartReject(t)
    \/ \E t \in Tasks : \E list \in {<<>>, <<"e1">>} : ProbeDone(t, list)
    \/ \E t \in Tasks : Push2Done(t)
    \/ \E t \in Tasks : ClientStarted(t)
    \/ StopClick
    \/ \E c \in Tasks : ClientClosed(c)
    \/ \E c \in Tasks : StopResume(c)
    \/ \E i \in 1..Len(decoders) : handleSelectedDecoderChange(decoders[i])

SpecSession == Init /\ [][NextSession]_vars

\* The session and its settings: start() and stop() as in Spec, every start()
\* recorded with the encoder selected when it was invoked and with the
\* selectedDecoder its closure holds (start is a callback of the render in
\* which it was invoked, dependencies [device, selectedDecoder], line 260), and
\* the encoder and decoder dropdowns; the stream and the input events are
\* left out.
StartRecorded(t) ==
    /\ Start(t)
    /\ encoderAtStart' = [encoderAtStart EXCEPT ![t] = currentEncoder]
    /\ decoderAtStart' = [decoderAtStart EXCEPT ![t] = selectedDecoder]

NextSettings ==
    \/ DeviceConnected
    \/ \E t \in Tasks : StartRecorded(t)
    \/ \E t \in Tasks : StartStep(t)
    \/ \E t \in Tasks : StartReject(t)
    \/ \E t \in Tasks : \E list \in ProbeResults : ProbeDone(t, list)
    \/ \E t \in Tasks : Push2Done(t)
    \/ \E t \in Tasks : ClientStarted(t)
    \/ StopClick
    \/ \E c \in Tasks : ClientClosed(c)
    \/ \E c \in Tasks : StopResume(c)
    \/ \E e \in EncoderNames : handleCurrentEncoderChange(e)
    \/ \E i \in 1..Len(decoders) : handleSelectedDecoderChange(decoders[i])

SpecSettings == Init /\ [][NextSettings]_vars

\* One session, from start() to stop(), and the input events: the pointer,
\* the keys and the navigation buttons.
NextInput ==
    \/ DeviceConnected
    \/ Start(1) /\ UNCHANGED <<encoderAtStart, decoderAtStart>>
    \/ StartStep(1)
    \/ ProbeDone(1, <<"e1">>)
    \/ Push2Done(1)
    \/ ClientStarted(1)
    \/ StopClick
    \/ StopResume(1)
    \/ \E g \in Geometries : SizeChanged(1, g)
    \/ ConfigureDone(1)
    \/ \E p \in PointerIds, b \in Buttons, pos \in PointerPositions,
          view \in Views, pressure \in Pressures :
            \/ ButtonPressed(p, b, pos, view, pressure)
            \/ ButtonReleased(p, b, pos, view, pressure)
    \/ \E p \in PointerIds, pos \in PointerPositions, view \in Views,
          pressure \in Pressures : PointerMoved(p, pos, view, pressure)
    \/ \E p \in PointerIds, pos \in PointerPositions, view \in Views :
            PointerCancelled(p, pos, view)
    \/ \E key \in Keys : handleKeyDown(key)
    \/ handleBackClick
    \/ \E k \in {"Home", "AppSwitch"} : handleNavClick(k)

SpecInput == Init /\ [][NextInput]_vars

\* ------------------------------------------------------------- properties
\* Vocabulary of the properties.
LiveClients == {c \in Tasks : phase[c] \in {"starting", "started"}}
LiveDecoders == {d \in Tasks : decoder[d] = "live"}
\* Client t and decoder t, if constructed, are released and unreferenced.
Released(t) ==
    /\ phase[t] \in {"none", "closed"}
    /\ decoder[t] \in {"none", "disposed"}
    /\ scrcpyClientRef # t
    /\ decoderRef # t
\* The session is Idle.
Idle == ~running /\ ~connecting /\ scrcpyClientRef = None
\* No start() and no stop() is suspended.
Quiescent ==
    /\ \A t \in Tasks : ~InFlight(t)
    /\ \A c \in Tasks : stopsPending[c] = 0
\* start() task t finishes in this step.
Finishes(t) == InFlight(t) /\ pc'[t] = "done"
InjectOps == {"injectTouch", "injectText", "injectKeyCode", "pressBackOrTurnOnScreen"}
DecoderOps == {"configure", "decode"}

\* C1: stop() is idempotent: however many stop() invocations a session gets
\* (back to back, overlapping, or one from the close callback), close() is
\* called on its client at most once and dispose() on a decoder at most once.
C1_StopIdempotent ==
    \A c \in Tasks : closeCalls[c] <= 1 /\ disposeCalls[c] <= 1

\* C2: a start() during whose flight stop() was invoked does not complete the
\* transition to Running: when it finishes the session is Idle and the client
\* and decoder it created are released.
C2_StopCancelsStart ==
    [][\A t \in Tasks :
          (Finishes(t) /\ stopDuring[t]) =>
              (result'[t] # "ok" /\ Idle' /\ Released(t)')]_vars

\* C3: when a start() finishes in failure the session is Idle and the client
\* and the decoder it constructed are closed, disposed and unreferenced.
C3_FailedStartReleases ==
    [][\A t \in Tasks :
          (Finishes(t) /\ result'[t] # "ok") => (Idle' /\ Released(t)')]_vars

\* C4: there are never two live protocol clients or two live decoders, and a
\* client that was started is the handle stop() closes, or has been closed.
C4_SingleSession ==
    /\ Cardinality(LiveClients) <= 1
    /\ Cardinality(LiveDecoders) <= 1
    /\ \A c \in Tasks :
          phase[c] = "started" => (scrcpyClientRef = c \/ closeCalls[c] > 0)

\* C5: once a client has reported that it closed and every start() and stop()
\* has run to its end, its decoder is disposed, it is not the stored handle,
\* and running is false unless another client's session runs.
C5_CloseTearsDown ==
    \A c \in Tasks :
        (closeReported[c] /\ Quiescent) =>
            /\ decoder[c] = "disposed"
            /\ scrcpyClientRef # c
            /\ (running => scrcpyClientRef # None)

\* C6: a start() whose probe returns an empty list fails with the negotiation
\* error and leaves the session Idle, with no client constructed and no
\* handle stored.
C6_EmptyProbeIdle ==
    [][\A t \in Tasks :
          (pc[t] = "probe" /\ pc'[t] # "probe" /\ probed'[t] = <<>>) =>
              /\ pc'[t] = "done"
              /\ result'[t] = "No available encoder found"
              /\ Idle'
              /\ phase'[t] = "none"]_vars

\* C7: the encoder a client is constructed with is a member of the list its
\* start() probed.
C7_EncoderFromProbe ==
    \A c \in Tasks : phase[c] # "none" => optEncoder[c] \in Range(probed[c])

\* C8: the stream size is defined (non-zero) only while running: it is not
\* set before the Running transition and it is cleared when the session
\* returns to Idle.  (The converse, that it is defined whenever running, does
\* not hold between the Running transition and the first size-changed
\* callback.)
C8_SizeOnlyWhileRunning ==
    (width # 0 \/ height # 0) => running

\* C9: no configure or decode call is made for a client on which stop() has
\* begun, nor on a disposed decoder.
C9_NoLateCallbacks ==
    lastCall.op \in DecoderOps =>
        /\ closeCalls[lastCall.client] = 0
        /\ decoder[lastCall.client] # "disposed"

\* C10: an input-injection call is made only while running and only on a
\* client whose teardown has not begun.
C10_InjectOnlyRunning ==
    lastCall.op \in InjectOps =>
        /\ running
        /\ phase[lastCall.client] = "started"
        /\ closeCalls[lastCall.client] = 0

\* C11: an input event received while no session is running, or while the
\* stream size is not yet known, is ignored: it raises no error and sends no
\* command.
C11_InputIgnoredUnlessReady ==
    (~running \/ width = 0 \/ height = 0) =>
        (lastCall.op # "TypeError" /\ lastCall.op \notin InjectOps)

\* The awaits of start() in the order of the source text, lines 140-251, and
\* the step that follows each.
StartOrder ==
    <<"idle", "fetch", "sync", "push1", "probe", "push2", "clientStart", "done">>

Follows(p, q) ==
    \E i \in 1..(Len(StartOrder) - 1) : StartOrder[i] = p /\ StartOrder[i + 1] = q

\* C12: every successful start() fetches, pushes, probes, pushes again, starts
\* the client and then becomes Running, one step completing before the next
\* begins; a start() leaves this order only by failing; the client is started
\* in the very step in which the push that follows the probe completes, and
\* running is set only by a start() whose client.start() has resolved.
C12_StartOrder ==
    [][/\ \A t \in Tasks :
            pc'[t] # pc[t] =>
                \/ Follows(pc[t], pc'[t]) /\ (pc'[t] = "done" => result'[t] = "ok")
                \/ InFlight(t) /\ pc'[t] = "done" /\ result'[t] \notin {"ok", "none"}
       /\ \A t \in Tasks :
            (phase[t] = "none" /\ phase'[t] # "none") =>
                (pc[t] = "push2" /\ probed[t] # NotProbed /\ ~ProbeEmpty(probed[t]))
       /\ (~running /\ running') =>
            \E t \in Tasks : pc[t] = "clientStart" /\ result'[t] = "ok"]_vars

\* A start() has run to the end and the session is Running.
C12_Started == \E t \in Tasks : result[t] = "ok" /\ running /\ scrcpyClientRef = t

\* C14: a protocol error that the client reports after Running is shown as a
\* message and triggers the teardown of stop(): the handler that shows the
\* message has also called close() on the client that reported it.
C14_ErrorTearsDown ==
    lastCall.op = "showErrorDialog" =>
        (running => closeCalls[lastCall.client] > 0)

C15_ConfigAtInvocation ==
    \A t \in Tasks :
        phase[t] # "none" =>
            optEncoder[t] = EffectiveEncoder(encoderAtStart[t], probed[t])

\* C16: the surface identity (the canvas key) changes only in a step that
\* leaves the session not running, so never while it stays Running, and
\* whenever the session is not running it is the selected decoder's name.
C16_SurfaceIdentity ==
    /\ [](~running => canvasKey = selectedDecoder)
    /\ [][canvasKey' # canvasKey => ~running']_vars

\* Another decoder was selected while Running and the surface was kept.
C16_SelectedWhileRunning == running /\ canvasKey # selectedDecoder

\* C17: for each pointer the touch commands form contacts Down, Move*, Up.
\* A Down is sent only when the primary button goes down, and opens a
\* contact; a Move or an Up is sent only for a pointer whose contact is open;
\* when the primary button of a pointer with an open contact goes up, or the
\* pointer is cancelled, an Up is sent; a change of another button sends
\* nothing.
C17_WellFormedContacts ==
    [][\A p \in PointerIds :
        LET sent == lastCall'.op = "injectTouch" /\ lastCall'.touch.pointerId = p
            action == lastCall'.touch.action
            primaryDown == ~Holds(held[p], 0) /\ Holds(held'[p], 0)
            primaryUp == Holds(held[p], 0) /\ ~Holds(held'[p], 0)
        IN  /\ (sent /\ action = "Down") => (primaryDown /\ ~contactOpen[p])
            /\ (sent /\ action \in {"Move", "Up"}) => contactOpen[p]
            /\ (primaryUp /\ contactOpen[p]) => (sent /\ action = "Up")
            /\ (held'[p] # held[p] /\ ~primaryDown /\ ~primaryUp) => ~sent]_vars

\* Equality of two fractions, and the nearest integer to a fraction that is
\* not negative.
SameNumber(a, b) == a[1] * b[2] = b[1] * a[2]
Round(a) == (2 * a[1] + a[2]) \div (2 * a[2])

\* The stream coordinate the claim gives for pointer coordinate `client` on a
\* surface that begins at `origin` and is `size` long, for a stream `stream`
\* long: one value v with the given property.
OnStream(v, client, origin, size, stream) ==
    /\ ~LessThan(v, <<0, 1>>)
    /\ ~LessThan(<<stream, 1>>, v)
    /\ client <= origin => SameNumber(v, <<0, 1>>)
    /\ client >= origin + size => SameNumber(v, <<stream, 1>>)
    /\ (origin <= client /\ client <= origin + size) =>
            SameNumber(v, <<(client - origin) * stream, size>>)

\* C18: the coordinates of every touch command lie within the stream, with a
\* pointer left of or above the surface at 0, one right of or below it at
\* the stream's width or height, and one inside at
\* (offset / surface size) * stream size.
C18_TouchWithinStream ==
    lastCall.op = "injectTouch" =>
        /\ OnStream(lastCall.touch.pointerX, lastCall.at.clientX,
                    lastCall.at.view.x, lastCall.at.view.width, width)
        /\ OnStream(lastCall.touch.pointerY, lastCall.at.clientY,
                    lastCall.at.view.y, lastCall.at.view.height, height)

\* A touch inside the surface horizontally and below it vertically, on a
\* stream whose size is known.
C18_TouchBelowSurface ==
    /\ lastCall.op = "injectTouch"
    /\ width # 0 /\ height # 0
    /\ lastCall.at.view.x < lastCall.at.clientX
    /\ lastCall.at.clientX < lastCall.at.view.x + lastCall.at.view.width
    /\ lastCall.at.clientY > lastCall.at.view.y + lastCall.at.view.height
    /\ lastCall.touch.pointerY = <<height, 1>>

\* The characters a-z, A-Z and 0-9.
Alphanumerics == Range(LowerCase) \cup Range(UpperCase) \cup Digits

\* C19: a key-down event while Running sends, for a key that is one
\* alphanumeric character, one injectText with that character; for
\* Backspace, one injectKeyCode with the Delete key code; for any other key,
\* nothing.
C19_KeyMapping ==
    [][\A key \in Keys :
        (running /\ handleKeyDown(key)) =>
            lastCall' =
                IF Len(key) = 1 /\ key[1] \in Alphanumerics
                THEN [NoCall EXCEPT !.op = "injectText",
                                    !.client = scrcpyClientRef, !.arg = key]
                ELSE IF key = Backspace
                THEN [NoCall EXCEPT !.op = "injectKeyCode",
                                    !.client = scrcpyClientRef,
                                    !.arg = <<"Delete">>]
                ELSE NoCall]_vars

\* An upper-case letter was sent as text while Running.
C19_TextSent ==
    running /\ lastCall.op = "injectText" /\ lastCall.arg = <<"Z">>

\* C20: the pressure of every touch command is the integer
\* round(p * 65535) of the event's pressure p, between 0 and 65535.
C20_PressureRounded ==
    lastCall.op = "injectTouch" =>
        LET exact == Scaled(lastCall.at.pressure, PressureScale)
        IN  /\ lastCall.touch.pressure = <<Round(exact), 1>>
            /\ 0 <= Round(exact) /\ Round(exact) <= PressureScale

\* start() task t constructs its decoder in this step, line 227:
\* `new selectedDecoder.factory(canvasRef.current!)`.  The factory is that of
\* the selectedDecoder of the closure; canvasRef.current is the canvas element
\* rendered with the key canvasKey.
ConstructsDecoder(t) == decoder[t] = "none" /\ decoder'[t] = "live"

\* C21: whenever start() constructs a decoder, the decoder kind it uses (the
\* selection captured when start() was invoked) is the identity of the
\* rendering surface it is constructed on at that moment.
C21_DecoderMatchesSurface ==
    [][\A t \in Tasks :
          ConstructsDecoder(t) => decoderAtStart[t] = canvasKey]_vars

====
